---------------------------- MODULE Spec2Model ----------------------------
(* A model of src/app.py: the /driver endpoint of the QR backend.        *)
(* Text is modelled as a sequence of one-character strings, bytes as     *)
(* numbers 0..255.  FastAPI runs the synchronous handler `driver` in a   *)
(* pool of worker threads, so several calls of driver/load_df can be in  *)
(* progress at once over the module globals _df_cache and _df_at.        *)
EXTENDS Integers, Sequences, FiniteSets, TLC

-----------------------------------------------------------------------------
(* Bounds of the model *)

\* number of worker threads serving /driver concurrently
NumWorkers == 2
\* how many times the wall clock advances
MaxTicks == 2
\* the longest raw identifier of the token runs
MaxIdLen == 2
\* the most data rows of a document of the lookup runs
MaxRows == 2

-----------------------------------------------------------------------------
(* Configuration (src/app.py:9-17) *)

\* values of the environment variable SECRET_KEY, encoded: b"s3cret", b"other"
KEY_A == <<115, 51, 99, 114, 101, 116>>
KEY_B == <<111, 116, 104, 101, 114>>
\* a value of the environment variable ONEDRIVE_URL
URL_A == <<"h", "t", "t", "p", "s", ":", "/", "/", "x", ".", "s", "h", "a", "r", "e", "p", "o", "i", "n", "t", ".", "c", "o", "m", "/", "f", "?", "w", "e", "b", "=", "1">>
CACHE_TTL == 60

\* time.time() of the first observation; far larger than CACHE_TTL in reality
StartTime == 2 * CACHE_TTL
\* the clock advances in steps of half a TTL
TickStep == CACHE_TTL \div 2

-----------------------------------------------------------------------------
(* Characters and strings *)

LowerLetters == <<"a", "b", "c", "d", "e", "f", "g", "h", "i", "j", "k", "l", "m", "n", "o", "p", "q", "r", "s", "t", "u", "v", "w", "x", "y", "z">>
UpperLetters == <<"A", "B", "C", "D", "E", "F", "G", "H", "I", "J", "K", "L", "M", "N", "O", "P", "Q", "R", "S", "T", "U", "V", "W", "X", "Y", "Z">>
Digits == <<"0", "1", "2", "3", "4", "5", "6", "7", "8", "9">>

Range(s) == {s[i] : i \in DOMAIN s}
IndexOf(c, s) == CHOOSE i \in DOMAIN s : s[i] = c

\* The characters of the model are those of ASCII and Latin-1 and the four
\* characters outside Latin-1 that str.upper(), str.lower() and NFD lead to
\* from there.  Two of them are written as stand-ins: KELVIN for U+212A
\* KELVIN SIGN and Y_DIAERESIS for U+0178, the capital of U+00FF.
KELVIN == "U+212A"
Y_DIAERESIS == "U+0178"

\* the small letters of Latin-1 whose capital is one letter of Latin-1, and
\* those capitals
LowerLatin1 ==
  <<"à", "á", "â", "ã", "ä", "å", "æ", "ç", "è", "é", "ê", "ë", "ì", "í", "î",
   "ï", "ð", "ñ", "ò", "ó", "ô", "õ", "ö", "ø", "ù", "ú", "û", "ü", "ý", "þ">>
UpperLatin1 ==
  <<"À", "Á", "Â", "Ã", "Ä", "Å", "Æ", "Ç", "È", "É", "Ê", "Ë", "Ì", "Í", "Î",
   "Ï", "Ð", "Ñ", "Ò", "Ó", "Ô", "Õ", "Ö", "Ø", "Ù", "Ú", "Û", "Ü", "Ý", "Þ">>

\* U+000B, U+001C..U+001F, U+0085 and U+00A0
WhiteSpace ==
  {" ", "\t", "\n", "\r", "\f", "", "", "", "", "", "", " "}

\* str.isspace(), which str.strip() and the pattern \s go by
IsSpace(c) == c \in WhiteSpace

RECURSIVE LStrip(_)
LStrip(s) == IF s # <<>> /\ IsSpace(Head(s)) THEN LStrip(Tail(s)) ELSE s

RECURSIVE RStrip(_)
RStrip(s) ==
  IF s # <<>> /\ IsSpace(s[Len(s)]) THEN RStrip(SubSeq(s, 1, Len(s) - 1)) ELSE s

\* str.strip()
Strip(s) == RStrip(LStrip(s))

\* the characters that str.upper() changes
CasedSmall ==
  Range(LowerLetters) \cup Range(LowerLatin1) \cup {"ß", "ÿ", "µ", "μ"}

\* str.upper() of one character; the result can be longer than one character
\* (the capital of U+00B5 MICRO SIGN and of U+03BC is the Greek U+039C)
UpperChar(c) ==
  IF c \notin CasedSmall THEN <<c>>
  ELSE IF c \in Range(LowerLetters) THEN <<UpperLetters[IndexOf(c, LowerLetters)]>>
  ELSE IF c \in Range(LowerLatin1) THEN <<UpperLatin1[IndexOf(c, LowerLatin1)]>>
  ELSE IF c = "ß" THEN <<"S", "S">>
  ELSE IF c = "ÿ" THEN <<Y_DIAERESIS>>
  ELSE IF c \in {"µ", "μ"} THEN <<"Μ">>
  ELSE <<c>>

RECURSIVE Upper(_)
Upper(s) == IF s = <<>> THEN <<>> ELSE UpperChar(Head(s)) \o Upper(Tail(s))

\* the characters that str.lower() changes
CasedCapital ==
  Range(UpperLetters) \cup Range(UpperLatin1) \cup {KELVIN, Y_DIAERESIS, "Μ"}

\* str.lower() of one character
LowerChar(c) ==
  IF c \notin CasedCapital THEN c
  ELSE IF c \in Range(UpperLetters) THEN LowerLetters[IndexOf(c, UpperLetters)]
  ELSE IF c \in Range(UpperLatin1) THEN LowerLatin1[IndexOf(c, UpperLatin1)]
  ELSE IF c = KELVIN THEN "k"
  ELSE IF c = Y_DIAERESIS THEN "ÿ"
  ELSE IF c = "Μ" THEN "μ"
  ELSE c

\* str.lower()
Lower(s) == [i \in DOMAIN s |-> LowerChar(s[i])]

\* the characters the pattern [^A-Z0-9] keeps
AZ09 == Range(UpperLetters) \cup Range(Digits)
IsAZ09(c) == c \in AZ09

RECURSIVE KeepAZ09(_)
KeepAZ09(s) ==
  IF s = <<>> THEN <<>>
  ELSE (IF IsAZ09(Head(s)) THEN <<Head(s)>> ELSE <<>>) \o KeepAZ09(Tail(s))

\* Python's None where a string is expected, and `s or ""`
None == <<"<None>">>
OrEmpty(s) == IF s = None THEN <<>> ELSE s

\* a variant of normalize_doc that does not uppercase
normalize_doc_NoUpper(s) == KeepAZ09(Strip(OrEmpty(s)))

\* normalize_doc: s = (s or "").strip().upper(); re.sub(r"[^A-Z0-9]", "", s)
normalize_doc(s) == KeepAZ09(Upper(Strip(OrEmpty(s))))

-----------------------------------------------------------------------------
(* Token: b64url(HMAC-SHA256(key, normalize_doc(doc))) *)

B64Alphabet == UpperLetters \o LowerLetters \o Digits \o <<"-", "_">>

\* base64 of up to three bytes: four characters, "=" for the missing ones
B64Group(g) ==
  LET b1 == g[1]
      b2 == IF Len(g) >= 2 THEN g[2] ELSE 0
      b3 == IF Len(g) >= 3 THEN g[3] ELSE 0
      n  == b1 * 65536 + b2 * 256 + b3
  IN  << B64Alphabet[(n \div 262144) + 1],
         B64Alphabet[((n \div 4096) % 64) + 1],
         IF Len(g) >= 2 THEN B64Alphabet[((n \div 64) % 64) + 1] ELSE "=",
         IF Len(g) >= 3 THEN B64Alphabet[(n % 64) + 1] ELSE "=" >>

RECURSIVE urlsafe_b64encode(_)
urlsafe_b64encode(b) ==
  IF b = <<>> THEN <<>>
  ELSE IF Len(b) <= 3 THEN B64Group(b)
  ELSE B64Group(SubSeq(b, 1, 3)) \o urlsafe_b64encode(SubSeq(b, 4, Len(b)))

RECURSIVE RStripEq(_)
RStripEq(s) ==
  IF s # <<>> /\ s[Len(s)] = "=" THEN RStripEq(SubSeq(s, 1, Len(s) - 1)) ELSE s

\* b64url: base64.urlsafe_b64encode(b).decode().rstrip("=")
b64url(b) == RStripEq(urlsafe_b64encode(b))

\* the UTF-8 bytes of a normalized identifier (only A-Z and 0-9 remain)
Ord(c) ==
  IF c \in Range(Digits) THEN 47 + IndexOf(c, Digits)
  ELSE 64 + IndexOf(c, UpperLetters)

Utf8(s) == [i \in DOMAIN s |-> Ord(s[i])]

DigestSize == 32
BlockSize == 64

\* exclusive or of the bits of two numbers
RECURSIVE XorBits(_, _)
XorBits(a, b) ==
  IF a = 0 THEN b ELSE IF b = 0 THEN a
  ELSE ((a + b) % 2) + 2 * XorBits(a \div 2, b \div 2)

\* the same on bytes, as a table: row a + 1, column b + 1
RECURSIVE XorRow(_, _, _)
XorRow(a, lo, hi) ==
  IF lo = hi THEN <<XorBits(a, lo)>>
  ELSE XorRow(a, lo, (lo + hi) \div 2) \o XorRow(a, ((lo + hi) \div 2) + 1, hi)

RECURSIVE XorRows(_, _)
XorRows(lo, hi) ==
  IF lo = hi THEN <<XorRow(lo, 0, 255)>>
  ELSE XorRows(lo, (lo + hi) \div 2) \o XorRows(((lo + hi) \div 2) + 1, hi)

XorTable == XorRows(0, 255)

\* exclusive or and conjunction of the bits of two 16-bit numbers
Xor(a, b) ==
  XorTable[(a \div 256) + 1][(b \div 256) + 1] * 256 + XorTable[(a % 256) + 1][(b % 256) + 1]
And(a, b) == (a + b - Xor(a, b)) \div 2

\* a 32-bit word is the pair of its high and its low 16 bits
WXor(x, y) == <<Xor(x[1], y[1]), Xor(x[2], y[2])>>
WAnd(x, y) == <<And(x[1], y[1]), And(x[2], y[2])>>
WAdd(x, y) ==
  LET lo == x[2] + y[2]
  IN  <<(x[1] + y[1] + (lo \div 65536)) % 65536, lo % 65536>>

\* rotate right by n bits, 0 < n < 32
RotR(x, n) ==
  IF n = 16 THEN <<x[2], x[1]>>
  ELSE LET h == IF n < 16 THEN x[1] ELSE x[2]
           l == IF n < 16 THEN x[2] ELSE x[1]
           m == IF n < 16 THEN n ELSE n - 16
       IN  << (h \div (2 ^ m)) + (l % (2 ^ m)) * (2 ^ (16 - m)),
              (l \div (2 ^ m)) + (h % (2 ^ m)) * (2 ^ (16 - m)) >>

\* the round constants and the initial hash value of SHA-256
SHA_K ==
  <<<<17034, 12184>>, <<28983, 17553>>, <<46528, 64463>>, <<59829, 56229>>,
     <<14678, 49755>>, <<23025, 4593>>, <<37439, 33444>>, <<43804, 24277>>,
     <<55303, 43672>>, <<4739, 23297>>, <<9265, 34238>>, <<21772, 32195>>,
     <<29374, 23924>>, <<32990, 45566>>, <<39900, 1703>>, <<49563, 61812>>,
     <<58523, 27073>>, <<61374, 18310>>, <<4033, 40390>>, <<9228, 41420>>,
     <<11753, 11375>>, <<19060, 33962>>, <<23728, 43484>>, <<30457, 35034>>,
     <<38974, 20818>>, <<43057, 50797>>, <<45059, 10184>>, <<48985, 32711>>,
     <<50912, 3059>>, <<54695, 37191>>, <<1738, 25425>>, <<5161, 10599>>,
     <<10167, 2693>>, <<11803, 8504>>, <<19756, 28156>>, <<21304, 3347>>,
     <<25866, 29524>>, <<30314, 2747>>, <<33218, 51502>>, <<37490, 11397>>,
     <<41663, 59553>>, <<43034, 26187>>, <<49739, 35696>>, <<51052, 20899>>,
     <<53650, 59417>>, <<54937, 1572>>, <<62478, 13701>>, <<4202, 41072>>,
     <<6564, 49430>>, <<7735, 27656>>, <<10056, 30540>>, <<13488, 48309>>,
     <<14620, 3251>>, <<20184, 43594>>, <<23452, 51791>>, <<26670, 28659>>,
     <<29839, 33518>>, <<30885, 25455>>, <<33992, 30740>>, <<36039, 520>>,
     <<37054, 65530>>, <<42064, 27883>>, <<48889, 41975>>, <<50801, 30962>> >>

SHA_H0 ==
  <<<<27145, 58983>>, <<47975, 44677>>, <<15470, 62322>>, <<42319, 62778>>,
     <<20750, 21119>>, <<39685, 26764>>, <<8067, 55723>>, <<23520, 52505>> >>

\* the message schedule: the 16 words of a block extended to 64
RECURSIVE Schedule(_)
Schedule(w) ==
  IF Len(w) = 64 THEN w
  ELSE LET t == Len(w) + 1
           ShR(x, n) ==
             IF n >= 16 THEN <<0, x[1] \div (2 ^ (n - 16))>>
             ELSE << x[1] \div (2 ^ n),
                     (x[2] \div (2 ^ n)) + (x[1] % (2 ^ n)) * (2 ^ (16 - n)) >>
           SmallSigma0(x) == WXor(WXor(RotR(x, 7), RotR(x, 18)), ShR(x, 3))
           SmallSigma1(x) == WXor(WXor(RotR(x, 17), RotR(x, 19)), ShR(x, 10))
       IN  Schedule(Append(w, WAdd(WAdd(SmallSigma1(w[t - 2]), w[t - 7]),
                                   WAdd(SmallSigma0(w[t - 15]), w[t - 16]))))

\* the 64 rounds: t is the round to come, v the working variables a..h
RECURSIVE Rounds(_, _)
Rounds(st, w) ==
  IF st.t > 64 THEN st.v
  ELSE LET BigSigma0(x) == WXor(WXor(RotR(x, 2), RotR(x, 13)), RotR(x, 22))
           BigSigma1(x) == WXor(WXor(RotR(x, 6), RotR(x, 11)), RotR(x, 25))
           WNot(x) == <<65535 - x[1], 65535 - x[2]>>
           Ch(x, y, z) == WXor(WAnd(x, y), WAnd(WNot(x), z))
           Maj(x, y, z) == WXor(WXor(WAnd(x, y), WAnd(x, z)), WAnd(y, z))
           T1(v) == WAdd(WAdd(WAdd(v[8], BigSigma1(v[5])),
                              WAdd(Ch(v[5], v[6], v[7]), SHA_K[st.t])), w[st.t])
           T2(v) == WAdd(BigSigma0(v[1]), Maj(v[1], v[2], v[3]))
           Step(v, t1, t2) ==
             <<WAdd(t1, t2), v[1], v[2], v[3], WAdd(v[4], t1), v[5], v[6], v[7]>>
       IN  Rounds([t |-> st.t + 1, v |-> Step(st.v, T1(st.v), T2(st.v))], w)

\* the compression of one block, read as 16 big-endian words, into the hash
\* value h
Compress(h, block) ==
  LET BlockWords(b) ==
        [i \in 1..16 |-> <<b[4 * i - 3] * 256 + b[4 * i - 2], b[4 * i - 1] * 256 + b[4 * i]>>]
      AddWords(g, v) ==
        << WAdd(g[1], v[1]), WAdd(g[2], v[2]), WAdd(g[3], v[3]), WAdd(g[4], v[4]),
           WAdd(g[5], v[5]), WAdd(g[6], v[6]), WAdd(g[7], v[7]), WAdd(g[8], v[8]) >>
  IN  AddWords(h, Rounds([t |-> 1, v |-> h], Schedule(BlockWords(block))))

\* the end of a message that had `before` bytes ahead of msg, padded: the
\* byte 0x80, zero bytes, and the length of the whole in bits as 8 bytes
Pad(msg, before) ==
  LET n == before + Len(msg)
      bits == 8 * n
  IN  msg \o <<128>> \o [i \in 1..((119 - (n % BlockSize)) % BlockSize) |-> 0]
          \o <<0, 0, 0, 0, 0, bits \div 65536, (bits \div 256) % 256, bits % 256>>

\* the blocks of m compressed one after the other into h
RECURSIVE Blocks(_, _)
Blocks(h, m) ==
  IF m = <<>> THEN h
  ELSE Blocks(Compress(h, SubSeq(m, 1, BlockSize)), SubSeq(m, BlockSize + 1, Len(m)))

\* the hash value as the 32 bytes of the digest
DigestBytes(h) ==
  LET WordBytes(x) == <<x[1] \div 256, x[1] % 256, x[2] \div 256, x[2] % 256>>
  IN
  WordBytes(h[1]) \o WordBytes(h[2]) \o WordBytes(h[3]) \o WordBytes(h[4])
    \o WordBytes(h[5]) \o WordBytes(h[6]) \o WordBytes(h[7]) \o WordBytes(h[8])

\* hashlib.sha256(msg).digest()
sha256(msg) == DigestBytes(Blocks(SHA_H0, Pad(msg, 0)))

\* HMAC: the key, hashed when longer than a block, is padded with zero bytes
\* to a block; the hash values after the inner block (key xor 0x36) and after
\* the outer block (key xor 0x5c) depend on the key alone
HmacStates(key) ==
  LET Block(k0) == k0 \o [i \in 1..(BlockSize - Len(k0)) |-> 0]
      States(k) ==
        [ inner |-> Compress(SHA_H0, [i \in 1..BlockSize |-> Xor(k[i], 54)]),
          outer |-> Compress(SHA_H0, [i \in 1..BlockSize |-> Xor(k[i], 92)]) ]
  IN  States(Block(IF Len(key) > BlockSize THEN sha256(key) ELSE key))

\* the digest of msg from the two hash values of a key
HmacWith(ks, msg) ==
  DigestBytes(Blocks(ks.outer,
                     Pad(DigestBytes(Blocks(ks.inner, Pad(msg, BlockSize))), BlockSize)))

\* every sequence over S of length at most n
RECURSIVE SeqsUpTo(_, _)
SeqsUpTo(S, n) ==
  IF n = 0 THEN {<<>>}
  ELSE LET shorter == SeqsUpTo(S, n - 1)
       IN  shorter \cup {Append(s, x) : s \in shorter, x \in S}

\* the raw identifiers of the token runs
TokDocs == SeqsUpTo({"1", "a", "A", "-", " ", "ß"}, MaxIdLen)

\* the keys of the token runs: b"s3cret", b"other", b"s3cre", b"s3cret!"
Keys ==
  { KEY_A, KEY_B, <<115, 51, 99, 114, 101>>, <<115, 51, 99, 114, 101, 116, 33>> }

\* the digests of the identifiers of the runs under the keys of the runs,
\* computed once
RunMessages ==
  { Utf8(normalize_doc(d)) : d \in TokDocs \cup {<<"1", "2", "a">>, <<"7">>} }
Digests ==
  UNION { LET ks == HmacStates(k)
          IN  { <<k, m, HmacWith(ks, m)>> : m \in RunMessages } : k \in Keys }

\* hmac.new(key, msg, hashlib.sha256).digest()
hmac_sha256(key, msg) ==
  LET Pick(known) ==
        IF known # {} THEN (CHOOSE e \in known : TRUE)[3]
        ELSE HmacWith(HmacStates(key), msg)
  IN  Pick({ e \in Digests : e[1] = key /\ e[2] = msg })

\* the token of an identifier under a key (driver, lines 117-119)
sign(doc, key) == b64url(hmac_sha256(key, Utf8(normalize_doc(doc))))

-----------------------------------------------------------------------------
(* Link normalization (src/app.py:36-45) *)

\* str.startswith(pre)
StartsWith(s, pre) == Len(s) >= Len(pre) /\ SubSeq(s, 1, Len(pre)) = pre

\* sub in s
Contains(s, sub) ==
  \E j \in 1..(Len(s) - Len(sub) + 1) : SubSeq(s, j, j + Len(sub) - 1) = sub

\* str.replace(old, new): every occurrence, left to right, without overlap
RECURSIVE Replace(_, _, _)
Replace(s, old, new) ==
  IF Len(s) < Len(old) THEN s
  ELSE IF StartsWith(s, old)
       THEN new \o Replace(SubSeq(s, Len(old) + 1, Len(s)), old, new)
       ELSE <<Head(s)>> \o Replace(Tail(s), old, new)

HTTP == <<"h", "t", "t", "p", ":", "/", "/">>
HTTPS == <<"h", "t", "t", "p", "s", ":", "/", "/">>
SHAREPOINT == <<"s", "h", "a", "r", "e", "p", "o", "i", "n", "t", ".", "c", "o", "m">>
ONEDRIVE == <<"o", "n", "e", "d", "r", "i", "v", "e", ".", "l", "i", "v", "e", ".", "c", "o", "m">>
Q_WEB == <<"?", "w", "e", "b", "=", "1">>
Q_DOWNLOAD == <<"?", "d", "o", "w", "n", "l", "o", "a", "d", "=", "1">>
DOWNLOAD_1 == <<"d", "o", "w", "n", "l", "o", "a", "d", "=", "1">>
REDIR == <<"r", "e", "d", "i", "r">>
DOWNLOAD == <<"d", "o", "w", "n", "l", "o", "a", "d">>
VIEW_ASPX == <<"v", "i", "e", "w", ".", "a", "s", "p", "x">>
DOWNLOAD_ASPX == <<"d", "o", "w", "n", "l", "o", "a", "d", ".", "a", "s", "p", "x">>

\* line 41 and line 44: append download=1 with & or ?
AppendDownload(u) ==
  u \o (IF Contains(u, <<"?">>) THEN <<"&">> ELSE <<"?">>) \o DOWNLOAD_1

\* a variant of od_to_download that appends download=1 to every SharePoint
\* link that has no ?web=1
od_to_download_AlwaysAppends(url) ==
  LET u0 == Strip(OrEmpty(url))
      u  == IF StartsWith(Lower(u0), HTTP) \/ StartsWith(Lower(u0), HTTPS)
            THEN u0 ELSE HTTPS \o u0
  IN  IF Contains(u, SHAREPOINT)
      THEN IF Contains(u, Q_WEB) THEN Replace(u, Q_WEB, Q_DOWNLOAD)
           ELSE AppendDownload(u)
      ELSE IF Contains(u, ONEDRIVE)
      THEN LET v == Replace(Replace(u, REDIR, DOWNLOAD), VIEW_ASPX, DOWNLOAD_ASPX)
           IN  IF ~Contains(v, DOWNLOAD_1) THEN AppendDownload(v) ELSE v
      ELSE u

\* od_to_download
od_to_download(url) ==
  LET u0 == Strip(OrEmpty(url))
      u  == IF StartsWith(Lower(u0), HTTP) \/ StartsWith(Lower(u0), HTTPS)
            THEN u0 ELSE HTTPS \o u0
  IN  IF Contains(u, SHAREPOINT)
      THEN IF Contains(u, Q_WEB) THEN Replace(u, Q_WEB, Q_DOWNLOAD)
           ELSE IF ~Contains(u, DOWNLOAD_1) THEN AppendDownload(u)
           ELSE u
      ELSE IF Contains(u, ONEDRIVE)
      THEN LET v == Replace(Replace(u, REDIR, DOWNLOAD), VIEW_ASPX, DOWNLOAD_ASPX)
           IN  IF ~Contains(v, DOWNLOAD_1) THEN AppendDownload(v) ELSE v
      ELSE u

-----------------------------------------------------------------------------
(* Header normalization (src/app.py:27-34) *)

\* the letters that NFD decomposes into a letter and combining marks, and
\* that letter
Accented ==
  <<"À", "Á", "Â", "Ã", "Ä", "Å", "Ç", "È", "É", "Ê", "Ë", "Ì", "Í", "Î", "Ï",
   "Ñ", "Ò", "Ó", "Ô", "Õ", "Ö", "Ù", "Ú", "Û", "Ü", "Ý", "à", "á", "â", "ã",
   "ä", "å", "ç", "è", "é", "ê", "ë", "ì", "í", "î", "ï", "ñ", "ò", "ó", "ô",
   "õ", "ö", "ù", "ú", "û", "ü", "ý", "ÿ">>
Unaccented ==
  <<"A", "A", "A", "A", "A", "A", "C", "E", "E", "E", "E", "I", "I", "I", "I",
   "N", "O", "O", "O", "O", "O", "U", "U", "U", "U", "Y", "a", "a", "a", "a",
   "a", "a", "c", "e", "e", "e", "e", "i", "i", "i", "i", "n", "o", "o", "o",
   "o", "o", "u", "u", "u", "u", "y", "y">>

\* the characters that have a decomposition
Decomposed == Range(Accented) \cup {KELVIN, Y_DIAERESIS}

\* unicodedata NFD decomposition with the combining marks (category Mn) dropped
StripAccentChar(c) ==
  IF c \notin Decomposed THEN c
  ELSE IF c \in Range(Accented) THEN Unaccented[IndexOf(c, Accented)]
  ELSE IF c = KELVIN THEN "K"
  ELSE IF c = Y_DIAERESIS THEN "Y"
  ELSE c

strip_accents(s) == [i \in DOMAIN s |-> StripAccentChar(s[i])]

\* re.sub(r"\s+", " ", s): every run of whitespace becomes one blank
RECURSIVE CollapseSpaces(_)
CollapseSpaces(s) ==
  IF s = <<>> THEN <<>>
  ELSE IF IsSpace(Head(s))
       THEN IF Len(s) >= 2 /\ IsSpace(s[2])
            THEN CollapseSpaces(Tail(s))
            ELSE <<" ">> \o CollapseSpaces(Tail(s))
       ELSE <<Head(s)>> \o CollapseSpaces(Tail(s))

\* norm_header: strip, upper, strip_accents, collapse whitespace
norm_header(s) == CollapseSpaces(strip_accents(Upper(Strip(OrEmpty(s)))))

-----------------------------------------------------------------------------
(* Column detection (src/app.py:72-90) *)

NAME_H == <<"N", "O", "M", "B", "R", "E", "S", " ", "Y", " ", "A", "P", "E", "L", "L", "I", "D", "O", "S">>
DOC_H == <<"D", "N", "I", " ", "/", " ", "C", "E">>
VIG_H == <<"F", "E", "C", "H", "A", " ", "D", "E", " ", "V", "I", "G", "E", "N", "C", "I", "A", " ", "D", "E", " ", "H", "A", "B", "I", "L", "I", "T", "A", "C", "I", "O", "N", " ", "D", "E", " ", "L", "I", "C", "E", "N", "C", "I", "A", " ", "I", "N", "T", "E", "R", "N", "A">>
EST_H == <<"E", "S", "T", "A", "T", "U", "S", " ", "D", "E", " ", "P", "R", "O", "C", "E", "S", "O", " ", "D", "E", " ", "H", "A", "B", "I", "L", "I", "T", "A", "C", "I", "O", "N">>

\* the fallback positions, zero-based: D, E, AF, AG
NAME_FALLBACK == 3
DOC_FALLBACK == 4
VIG_FALLBACK == 31
EST_FALLBACK == 32

\* an index that is still None is the empty tuple, an index i is <<i>>
NoIdx == <<>>

\* one round of the loop over cols_norm.items(): column i (zero-based) with
\* normalized header h assigns every index whose logical name it equals
NAME_N == norm_header(NAME_H)
DOC_N == norm_header(DOC_H)
VIG_N == norm_header(VIG_H)
EST_N == norm_header(EST_H)

DetectStep(acc, i, h) ==
  [ name |-> IF h = NAME_N THEN <<i>> ELSE acc.name,
    doc  |-> IF h = DOC_N  THEN <<i>> ELSE acc.doc,
    vig  |-> IF h = VIG_N  THEN <<i>> ELSE acc.vig,
    est  |-> IF h = EST_N  THEN <<i>> ELSE acc.est ]

\* the loop of detect_cols over the columns from position i on
RECURSIVE DetectLoop(_, _, _)
DetectLoop(columns, i, acc) ==
  IF i >= Len(columns) THEN acc
  ELSE DetectLoop(columns, i + 1, DetectStep(acc, i, norm_header(columns[i + 1])))

\* a variant of detect_cols that uses all four fallback positions as soon as
\* one field has no header
detect_cols_AllOrNothing(df) ==
  LET found == DetectLoop(df.columns, 0,
                          [name |-> NoIdx, doc |-> NoIdx, vig |-> NoIdx, est |-> NoIdx])
  IN  IF NoIdx \in {found.name, found.doc, found.vig, found.est}
      THEN [ name |-> NAME_FALLBACK, doc |-> DOC_FALLBACK,
             vig |-> VIG_FALLBACK, est |-> EST_FALLBACK ]
      ELSE [ name |-> found.name[1], doc |-> found.doc[1],
             vig |-> found.vig[1], est |-> found.est[1] ]

\* detect_cols(df): the four zero-based positions, by header and else by fallback
detect_cols(df) ==
  LET found == DetectLoop(df.columns, 0,
                          [name |-> NoIdx, doc |-> NoIdx, vig |-> NoIdx, est |-> NoIdx])
  IN  [ name |-> IF found.name = NoIdx THEN NAME_FALLBACK ELSE found.name[1],
        doc  |-> IF found.doc  = NoIdx THEN DOC_FALLBACK  ELSE found.doc[1],
        vig  |-> IF found.vig  = NoIdx THEN VIG_FALLBACK  ELSE found.vig[1],
        est  |-> IF found.est  = NoIdx THEN EST_FALLBACK  ELSE found.est[1] ]

-----------------------------------------------------------------------------
(* Cells, rows and the lookup of driver (src/app.py:92-99, 123-157) *)

\* an empty spreadsheet cell, as pandas reads it
NaN == <<"<NaN>">>

\* val(row, idx): "" for a position outside the row or an empty cell, else the
\* trimmed text of the cell
val(row, idx) ==
  IF idx >= Len(row) THEN <<>>
  ELSE IF row[idx + 1] = NaN THEN <<>>
  ELSE Strip(row[idx + 1])

\* the lambda of line 125 on one cell of the identifier column
CellKey(x) == normalize_doc(IF x = NaN THEN <<>> ELSE x)

\* the positions (one-based) of the rows the boolean mask of line 125 keeps
MatchingRows(df, doc_idx, ndoc) ==
  {r \in DOMAIN df.rows : CellKey(df.rows[r][doc_idx + 1]) = ndoc}

\* a variant of FirstMatch that takes the last of the kept rows
FirstMatch_Last(S) == CHOOSE r \in S : \A q \in S : r >= q

\* matches.iloc[0]: the first of the kept rows
FirstMatch(S) == CHOOSE r \in S : \A q \in S : r <= q

\* str.replace('\\n', '<br>'): a backslash followed by n becomes <br>
RECURSIVE ReplaceBackslashN(_)
ReplaceBackslashN(s) ==
  IF s = <<>> THEN <<>>
  ELSE IF Len(s) >= 2 /\ s[1] = "\\" /\ s[2] = "n"
       THEN <<"<", "b", "r", ">">> \o ReplaceBackslashN(SubSeq(s, 3, Len(s)))
       ELSE <<Head(s)>> \o ReplaceBackslashN(Tail(s))

\* {x or '-'} of the template
OrDash(s) == IF s = <<>> THEN <<"-">> ELSE s

\* the outcomes of a request: a Response, or an exception that leaves driver
\* (the framework answers 500 and re-raises it)
NoExc == "none"
Answer(status, fields) == [status |-> status, exc |-> NoExc, fields |-> fields]
Raised(exc) == [status |-> 500, exc |-> exc, fields |-> <<>>]

\* driver from line 123 on, for the document load_df returned
Lookup(df, ndoc) ==
  LET c == detect_cols(df)
  IN  IF c.doc >= Len(df.columns) THEN Raised("IndexError")
      ELSE LET matches == MatchingRows(df, c.doc, ndoc)
           IN  IF matches = {} THEN Answer(404, <<>>)
               ELSE LET row == df.rows[FirstMatch(matches)]
                    IN  Answer(200, << ReplaceBackslashN(OrDash(val(row, c.name))),
                                       OrDash(val(row, c.doc)),
                                       OrDash(val(row, c.vig)),
                                       OrDash(val(row, c.est)) >>)

-----------------------------------------------------------------------------
(* The documents the remote link serves and the requests clients send *)

\* a document with every logical field under a header that matches after
\* normalization: status, identifier, a nameless column, name, expiry date
SheetA ==
  [ columns |-> << Lower([EST_H EXCEPT ![33] = "Ó"]),
                   <<" ">> \o Lower(DOC_H) \o <<"\t">>,
                   <<"U", "n", "n", "a", "m", "e", "d", ":", " ", "2">>,
                   <<"N", "O", "M", "B", "R", "E", "S", " ", " ", "Y", "\t", "A", "P", "E", "L", "L", "I", "D", "O", "S">>,
                   [VIG_H EXCEPT ![32] = "Ó"] >>,
    rows |-> << << <<"O", "K">>, <<"1", "2", "-", "a">>, NaN, <<" ", "A", "n", "a", " ">>, <<"2", "0", "2", "6">> >>,
                << <<"N", "O">>, <<"1", "2", "A">>, NaN, <<"B", "e", "a">>, NaN >>,
                << NaN, <<"7">>, <<"x">>, <<"C", "y">>, <<"2", "0", "2", "7">> >> >> ]

\* a document of three columns, none under a known header
SheetB ==
  [ columns |-> << <<"A">>, <<"B">>, <<"C">> >>,
    rows |-> << << <<"1", "2", "A">>, <<"7">>, NaN >> >> ]

\* _df_cache = None
NoDf == [none |-> TRUE]

\* a token with its first character altered
Tamper(t) == [t EXCEPT ![1] = IF t[1] = "A" THEN "B" ELSE "A"]

\* the requests of the concurrent runs: two spellings of the identifier 12A
\* with its token, one of them forcing a refresh, and a forced request with
\* a tampered token
Requests ==
  { [doc |-> <<"1", "2", "a">>, t |-> sign(<<"1", "2", "a">>, KEY_A), nocache |-> 0],
    [doc |-> <<" ", "1", "2", "-", "A">>, t |-> sign(<<"1", "2", "a">>, KEY_A), nocache |-> 1],
    [doc |-> <<"1", "2", "a">>, t |-> Tamper(sign(<<"1", "2", "a">>, KEY_A)), nocache |-> 1] }

\* what requests.get can bring back: an exception (err), or a response with
\* a status (ok: raise_for_status passes), a content type (containing html,
\* containing spreadsheetml, or neither), a body that starts with PK or does
\* not, and what read_excel makes of the body (NoDf: it raises)
ResponsesOf(S) ==
  { [err |-> TRUE, ok |-> FALSE, ct |-> "other", pk |-> FALSE, body |-> NoDf] }
  \cup { r \in [err : {FALSE}, ok : BOOLEAN, ct : {"html", "spreadsheetml", "other"},
                pk : BOOLEAN, body : S \cup {NoDf}] :
           r.body # NoDf => r.pk }

\* the remote document of the concurrent runs is one of two
Responses == ResponsesOf({SheetA, SheetB})

\* the requests of the token runs: every identifier with its token under
\* each key, with a tampered and an empty token, and with the token of
\* another identifier
TokensFor(d) ==
  { sign(d, k) : k \in Keys }
  \cup { Tamper(sign(d, KEY_A)), <<>>, sign(<<"7">>, KEY_A) }

TokRequests ==
  UNION { { [doc |-> d, t |-> t, nocache |-> n] : t \in TokensFor(d), n \in {0, 1} } :
          d \in TokDocs }

\* the links of the link runs: a scheme or none, a host or none, a path and
\* a query string or none, with and without a trailing blank
UrlSchemes ==
  { <<>>,
    <<"h", "t", "t", "p", "s", ":", "/", "/">>,
    <<"H", "T", "T", "P", ":", "/", "/">>,
    <<" ", "h", "t", "t", "p", "s", ":", "/", "/">> }
UrlHosts ==
  { <<>>,
    <<"x", ".", "s", "h", "a", "r", "e", "p", "o", "i", "n", "t", ".", "c", "o", "m">>,
    <<"o", "n", "e", "d", "r", "i", "v", "e", ".", "l", "i", "v", "e", ".", "c", "o", "m">>,
    <<"e", "x", "a", "m", "p", "l", "e", ".", "o", "r", "g">> }
UrlPaths ==
  { <<>>,
    <<"/", "f">>,
    <<"/", "r", "e", "d", "i", "r">>,
    <<"/", "v", "i", "e", "w", ".", "a", "s", "p", "x">> }
UrlQueries ==
  { <<>>,
    <<"?", "w", "e", "b", "=", "1">>,
    <<"?", "a", "=", "1">>,
    <<"?", "a", "=", "1", "&", "w", "e", "b", "=", "1">>,
    <<"?", "d", "o", "w", "n", "l", "o", "a", "d", "=", "1">> }
UrlTails == { <<>>, <<" ">> }

Urls ==
  { a \o h \o pa \o q \o e :
      a \in UrlSchemes, h \in UrlHosts, pa \in UrlPaths, q \in UrlQueries, e \in UrlTails }

\* the identifiers of the helper runs; the KELVIN SIGN is an uppercase letter
\* whose lowercase is "k" and whose str.upper() is itself
NormDocs == SeqsUpTo({"1", "k", "K", KELVIN, "-", " ", "ß"}, MaxIdLen)

\* the direct calls of the helper runs: od_to_download on every link and on
\* None, normalize_doc on every identifier above and on None
Pending == <<"<Pending>">>
UnitCalls ==
  { [fn |-> "od_to_download", arg |-> u, out |-> Pending, again |-> Pending] :
      u \in Urls \cup {None} }
  \cup
  { [fn |-> "normalize_doc", arg |-> d, out |-> Pending, again |-> Pending] :
      d \in NormDocs \cup {None} }

\* the label of a column without a known header
Col(j) == <<"c", Digits[(j \div 10) + 1], Digits[(j % 10) + 1]>>

PlainColumns(n) == [j \in 1..n |-> Col(j - 1)]

\* the cell of data row r (one-based) in column j (zero-based) outside the
\* identifier column: empty, padded, holding a backslash-n, or plain
Cell(r, j) ==
  IF (r + j) % 5 = 0 THEN NaN
  ELSE IF (r + j) % 5 = 1 THEN <<" ", Digits[r + 1], "x", Digits[(j % 10) + 1], "\t">>
  ELSE IF (r + j) % 5 = 2 THEN <<Digits[r + 1], "\\", "n", Digits[(j % 10) + 1]>>
  ELSE <<Digits[r + 1], "y", Digits[(j % 10) + 1]>>

\* header rows of the lookup runs, each with the (zero-based) column the
\* identifiers are written to
Layouts ==
  { [columns |-> SheetA.columns, idpos |-> 1],
    [columns |-> PlainColumns(5), idpos |-> 4],
    [columns |-> PlainColumns(3), idpos |-> 1],
    [columns |-> PlainColumns(33), idpos |-> 4],
    [columns |-> <<Lower(DOC_H), Col(1)>>, idpos |-> 0],
    [columns |-> <<NAME_H, DOC_H, VIG_H>>, idpos |-> 1],
    [columns |-> <<EST_H, NAME_H, VIG_H>>, idpos |-> 0],
    [columns |-> <<DOC_H, NAME_H, Lower(DOC_H), Col(3)>>, idpos |-> 0],
    [columns |-> <<Col(0), Col(1), Col(2), DOC_H, Col(4)>>, idpos |-> 3] }

\* what an identifier cell holds
IdCells ==
  { <<"1", "2", "A">>, <<"1", "2", "-", "a">>, <<" ", "7">>, NaN, <<"x", "9">> }

MkSheet(layout, ids) ==
  [ columns |-> layout.columns,
    rows |-> [r \in DOMAIN ids |->
                [c \in DOMAIN layout.columns |->
                   IF c = layout.idpos + 1 THEN ids[r] ELSE Cell(r, c - 1)]] ]

LookSheets == { MkSheet(l, ids) : l \in Layouts, ids \in SeqsUpTo(IdCells, MaxRows) }

LookResponses == ResponsesOf(LookSheets)

\* the requests of the lookup runs: identifiers with their tokens; one of
\* them normalizes to the empty string
LookRequests ==
  { [doc |-> d, t |-> sign(d, KEY_A), nocache |-> 0] :
      d \in { <<"1", "2", "a">>, <<"7">>, <<"-">>, <<"X", "-", "9", " ">> } }

-----------------------------------------------------------------------------
(* State *)

Workers == 1..NumWorkers

VARIABLES
  SECRET_KEY, \* the configured key, fixed when the module is loaded
  ONEDRIVE_URL, \* the configured link of the document
  app,        \* the process: "import" while the module loads, then "serving" or "failed"
  unit,       \* a direct call of one of the helper functions: argument and results
  df_cache,   \* _df_cache: NoDf or the cached document
  df_at,      \* _df_at: the timestamp stored with it
  ticks,      \* how often the clock has advanced
  pc,         \* where each worker thread is in driver / load_df
  req,        \* the request a worker serves
  ndoc,       \* driver's local ndoc
  now,        \* load_df's local now
  df,         \* load_df's local df, then driver's df
  resp        \* the outcome of the request

vars == <<SECRET_KEY, ONEDRIVE_URL, app, unit, df_cache, df_at, ticks, pc, req, ndoc, now, df, resp>>

\* what the request handling never changes
config == <<SECRET_KEY, ONEDRIVE_URL, app, unit>>

\* no helper function is being called directly
NoCall == [none |-> TRUE]

NoReq == [none |-> TRUE]
NoResp == [none |-> TRUE]

\* time.time()
Clock == StartTime + ticks * TickStep

\* the state of a freshly loaded module, but for the configuration
InitState ==
  /\ unit = NoCall
  /\ df_cache = NoDf
  /\ df_at = 0
  /\ ticks = 0
  /\ pc = [p \in Workers |-> "idle"]
  /\ req = [p \in Workers |-> NoReq]
  /\ ndoc = [p \in Workers |-> <<>>]
  /\ now = [p \in Workers |-> 0]
  /\ df = [p \in Workers |-> NoDf]
  /\ resp = [p \in Workers |-> NoResp]

Init == SECRET_KEY = KEY_A /\ ONEDRIVE_URL = URL_A /\ app = "serving" /\ InitState

-----------------------------------------------------------------------------
(* driver and load_df, statement by statement where globals are touched *)

\* a variant of TokenOk that compares the lengths only
TokenOk_LengthOnly(nd, t) == Len(t) = Len(b64url(hmac_sha256(SECRET_KEY, Utf8(nd))))

\* lines 118-119: the comparison of the token with the one of ndoc
TokenOk(nd, t) == t = b64url(hmac_sha256(SECRET_KEY, Utf8(nd)))

\* a variant of CacheHit with the age comparison turned around
CacheHit_Inverted(force, cache, at, t) ==
  (~force) /\ cache # NoDf /\ (t - at) > CACHE_TTL

\* line 54: the condition under which load_df returns the cached document
CacheHit(force, cache, at, t) == (~force) /\ cache # NoDf /\ (t - at) < CACHE_TTL

\* lines 58-67 on what the network brought back: the exception raised, or
\* the parsed document
FetchOutcome(r) ==
  IF r.err THEN Raised("RequestException")
  ELSE IF ~r.ok THEN Raised("HTTPError")
  ELSE IF r.ct = "html" \/ (~r.pk /\ r.ct # "spreadsheetml") THEN Raised("RuntimeError")
  ELSE IF r.body = NoDf THEN Raised("BadZipFile")
  ELSE r.body

\* the thread pool hands a request to its first free worker
FirstIdle(p) == pc[p] = "idle" /\ \A q \in Workers : q < p => pc[q] # "idle"

\* a variant of driver_start whose lookup key is only trimmed and uppercased
driver_start_OtherKey(p, r) ==
  /\ app = "serving"
  /\ FirstIdle(p)
  /\ req' = [req EXCEPT ![p] = r]
  /\ ndoc' = [ndoc EXCEPT ![p] = Upper(Strip(r.doc))]
  /\ IF TokenOk(normalize_doc(r.doc), r.t)
     THEN /\ pc' = [pc EXCEPT ![p] = "load"]
          /\ resp' = resp
     ELSE /\ pc' = [pc EXCEPT ![p] = "done"]
          /\ resp' = [resp EXCEPT ![p] = Answer(403, <<>>)]
  /\ UNCHANGED <<config, df_cache, df_at, ticks, now, df>>

\* a request arrives; driver verifies the token (117-120)
driver_start(p, r) ==
  /\ app = "serving"
  /\ FirstIdle(p)
  /\ req' = [req EXCEPT ![p] = r]
  /\ ndoc' = [ndoc EXCEPT ![p] = normalize_doc(r.doc)]
  /\ IF TokenOk(normalize_doc(r.doc), r.t)
     THEN /\ pc' = [pc EXCEPT ![p] = "load"]
          /\ resp' = resp
     ELSE /\ pc' = [pc EXCEPT ![p] = "done"]
          /\ resp' = [resp EXCEPT ![p] = Answer(403, <<>>)]
  /\ UNCHANGED <<config, df_cache, df_at, ticks, now, df>>

\* line 53: now = time.time()
load_now(p) ==
  /\ pc[p] = "load"
  /\ now' = [now EXCEPT ![p] = Clock]
  /\ pc' = [pc EXCEPT ![p] = "check"]
  /\ UNCHANGED <<config, df_cache, df_at, ticks, req, ndoc, df, resp>>

\* line 54, and on a miss lines 56-58 up to the GET being sent
load_check(p) ==
  /\ pc[p] = "check"
  /\ IF CacheHit(req[p].nocache # 0, df_cache, df_at, now[p])
     THEN pc' = [pc EXCEPT ![p] = "hit"]
     ELSE pc' = [pc EXCEPT ![p] = "get"]
  /\ UNCHANGED <<config, df_cache, df_at, ticks, req, ndoc, now, df, resp>>

\* line 55: return _df_cache, and the rest of driver on it
load_return(p) ==
  /\ pc[p] = "hit"
  /\ df' = [df EXCEPT ![p] = df_cache]
  /\ resp' = [resp EXCEPT ![p] = Lookup(df_cache, ndoc[p])]
  /\ pc' = [pc EXCEPT ![p] = "done"]
  /\ now' = [now EXCEPT ![p] = 0]
  /\ UNCHANGED <<config, df_cache, df_at, ticks, req, ndoc>>

\* a variant of load_get that stores the timestamp before it validates
load_get_StampsFirst(p, r) ==
  /\ pc[p] = "get"
  /\ df_at' = now[p]
  /\ LET out == FetchOutcome(r)
     IN  IF out = r.body
         THEN /\ df' = [df EXCEPT ![p] = out]
              /\ pc' = [pc EXCEPT ![p] = "store_cache"]
              /\ UNCHANGED <<resp, now>>
         ELSE /\ resp' = [resp EXCEPT ![p] = out]
              /\ pc' = [pc EXCEPT ![p] = "done"]
              /\ now' = [now EXCEPT ![p] = 0]
              /\ df' = df
  /\ UNCHANGED <<config, df_cache, ticks, req, ndoc>>

\* lines 58-67: the GET ends; an exception leaves load_df and driver
load_get(p, r) ==
  /\ pc[p] = "get"
  /\ LET out == FetchOutcome(r)
     IN  IF out = r.body
         THEN /\ df' = [df EXCEPT ![p] = out]
              /\ pc' = [pc EXCEPT ![p] = "store_cache"]
              /\ UNCHANGED <<resp, now>>
         ELSE /\ resp' = [resp EXCEPT ![p] = out]
              /\ pc' = [pc EXCEPT ![p] = "done"]
              /\ now' = [now EXCEPT ![p] = 0]
              /\ df' = df
  /\ UNCHANGED <<config, df_cache, df_at, ticks, req, ndoc>>

\* line 68, first target: _df_cache = df
load_store_cache(p) ==
  /\ pc[p] = "store_cache"
  /\ df_cache' = df[p]
  /\ pc' = [pc EXCEPT ![p] = "store_at"]
  /\ UNCHANGED <<config, df_at, ticks, req, ndoc, now, df, resp>>

\* a variant of load_store_at that stamps the entry with the time of the store
load_store_at_EndTime(p) ==
  /\ pc[p] = "store_at"
  /\ df_at' = Clock
  /\ resp' = [resp EXCEPT ![p] = Lookup(df[p], ndoc[p])]
  /\ pc' = [pc EXCEPT ![p] = "done"]
  /\ now' = [now EXCEPT ![p] = 0]
  /\ UNCHANGED <<config, df_cache, ticks, req, ndoc, df>>

\* line 68, second target: _df_at = now; then return df and the rest of driver
load_store_at(p) ==
  /\ pc[p] = "store_at"
  /\ df_at' = now[p]
  /\ resp' = [resp EXCEPT ![p] = Lookup(df[p], ndoc[p])]
  /\ pc' = [pc EXCEPT ![p] = "done"]
  /\ now' = [now EXCEPT ![p] = 0]
  /\ UNCHANGED <<config, df_cache, ticks, req, ndoc, df>>

\* the response is sent and the worker thread goes back to the pool
finish(p) ==
  /\ pc[p] = "done"
  /\ pc' = [pc EXCEPT ![p] = "idle"]
  /\ req' = [req EXCEPT ![p] = NoReq]
  /\ ndoc' = [ndoc EXCEPT ![p] = <<>>]
  /\ now' = [now EXCEPT ![p] = 0]
  /\ df' = [df EXCEPT ![p] = NoDf]
  /\ resp' = [resp EXCEPT ![p] = NoResp]
  /\ UNCHANGED <<config, df_cache, df_at, ticks>>

\* time passes
tick ==
  /\ ticks < MaxTicks
  /\ ticks' = ticks + 1
  /\ UNCHANGED <<config, df_cache, df_at, pc, req, ndoc, now, df, resp>>

Next ==
  \/ \E p \in Workers : \E r \in Requests : driver_start(p, r)
  \/ \E p \in Workers : load_now(p)
  \/ \E p \in Workers : load_check(p)
  \/ \E p \in Workers : load_return(p)
  \/ \E p \in Workers : \E r \in Responses : load_get(p, r)
  \/ \E p \in Workers : load_store_cache(p)
  \/ \E p \in Workers : load_store_at(p)
  \/ \E p \in Workers : finish(p)
  \/ tick

Spec == Init /\ [][Next]_vars

\* the same server when requests come one after the other: a request arrives
\* only while no other is being served
NoneInFlight == \A q \in Workers : pc[q] \in {"idle", "done"}

NextSeq ==
  \/ NoneInFlight /\ \E p \in Workers : \E r \in Requests : driver_start(p, r)
  \/ \E p \in Workers : load_now(p)
  \/ \E p \in Workers : load_check(p)
  \/ \E p \in Workers : load_return(p)
  \/ \E p \in Workers : \E r \in Responses : load_get(p, r)
  \/ \E p \in Workers : load_store_cache(p)
  \/ \E p \in Workers : load_store_at(p)
  \/ \E p \in Workers : finish(p)
  \/ tick

SpecSeq == Init /\ [][NextSeq]_vars

\* the sequential server with the scheduling the environment provides:
\* the same server when every request is answered before the next arrives
AllIdle == \A q \in Workers : pc[q] = "idle"

NextLive ==
  \/ AllIdle /\ \E p \in Workers : \E r \in Requests : driver_start(p, r)
  \/ \E p \in Workers : load_now(p)
  \/ \E p \in Workers : load_check(p)
  \/ \E p \in Workers : load_return(p)
  \/ \E p \in Workers : \E r \in Responses : load_get(p, r)
  \/ \E p \in Workers : load_store_cache(p)
  \/ \E p \in Workers : load_store_at(p)
  \/ \E p \in Workers : finish(p)
  \/ tick

\* The code makes a worker thread go on from every position but one: the GET
\* of line 58 has timeout=60, which bounds the connect and each wait for
\* bytes but not the whole transfer, so the code alone does not make a
\* thread leave "get".  What takes it on from there, and what brings new
\* requests, are the two hypotheses of the liveness claim about the
\* environment: the link answers with a document again and again while it
\* is asked, and requests with a valid token keep arriving.
GoodResponses == { r \in Responses : FetchOutcome(r) = r.body }

\* a step of a thread that is serving a request and is not waiting for the
\* GET: every such step of driver and load_df moves the thread to another
\* position, and a thread at any of these positions has such a step
Labels == {"idle", "load", "check", "hit", "get", "store_cache", "store_at", "done"}
Progress ==
  \E p \in Workers :
    /\ pc[p] \notin {"idle", "get"}
    /\ \E l \in Labels \ {pc[p]} : pc' = [pc EXCEPT ![p] = l]

\* the step of driver_start for a request whose token verifies: the only step
\* that takes an idle thread to "load"
ValidArrival ==
  /\ app = "serving"
  /\ AllIdle
  /\ \E p \in Workers : FirstIdle(p) /\ pc' = [pc EXCEPT ![p] = "load"]

\* weak fairness for the steps of the code, strong fairness for the two
\* hypotheses about the environment
Fairness ==
  /\ WF_pc(Progress)
  /\ SF_vars(\E p \in Workers : \E r \in GoodResponses : load_get(p, r))
  /\ SF_pc(ValidArrival)

SpecLive == Init /\ [][NextLive]_vars /\ Fairness

\* a single request to the freshly started server
FirstRequest == \A q \in Workers : pc[q] = "idle"

\* ... with every identifier and token of the token runs
NextTok ==
  \/ FirstRequest /\ \E p \in Workers : \E r \in TokRequests : driver_start(p, r)
  \/ \E p \in Workers : load_now(p)
  \/ \E p \in Workers : load_check(p)
  \/ \E p \in Workers : \E r \in Responses : load_get(p, r)
  \/ \E p \in Workers : load_store_cache(p)
  \/ \E p \in Workers : load_store_at(p)

\* ... and the server configured with any of the keys
InitTok == SECRET_KEY \in Keys /\ ONEDRIVE_URL = URL_A /\ app = "serving" /\ InitState

SpecTok == InitTok /\ [][NextTok]_vars

\* ... with every document of the lookup runs
NextLook ==
  \/ FirstRequest /\ \E p \in Workers : \E r \in LookRequests : driver_start(p, r)
  \/ \E p \in Workers : load_now(p)
  \/ \E p \in Workers : load_check(p)
  \/ \E p \in Workers : \E r \in LookResponses : load_get(p, r)
  \/ \E p \in Workers : load_store_cache(p)
  \/ \E p \in Workers : load_store_at(p)

SpecLook == Init /\ [][NextLook]_vars

\* a variant of module_load that checks the secret only
module_load_SecretOnly ==
  /\ app = "import"
  /\ app' = IF SECRET_KEY = <<>> THEN "failed" ELSE "serving"
  /\ UNCHANGED <<SECRET_KEY, ONEDRIVE_URL, unit, df_cache, df_at, ticks, pc, req, ndoc, now, df, resp>>

\* lines 9-17: the module is imported with the configuration of the
\* environment; RuntimeError when the secret or the link is empty
module_load ==
  /\ app = "import"
  /\ app' = IF SECRET_KEY = <<>> \/ ONEDRIVE_URL = <<>> THEN "failed" ELSE "serving"
  /\ UNCHANGED <<SECRET_KEY, ONEDRIVE_URL, unit, df_cache, df_at, ticks, pc, req, ndoc, now, df, resp>>

\* the process from its start, with a secret and a link that may be empty,
\* serving one request after the other
InitBoot ==
  /\ SECRET_KEY \in {<<>>, KEY_A}
  /\ ONEDRIVE_URL \in {<<>>, <<" ">>, URL_A}
  /\ app = "import"
  /\ InitState

NextBoot ==
  \/ module_load
  \/ FirstRequest /\ \E p \in Workers : \E r \in Requests : driver_start(p, r)
  \/ \E p \in Workers : load_now(p)
  \/ \E p \in Workers : load_check(p)
  \/ \E p \in Workers : load_return(p)
  \/ \E p \in Workers : \E r \in Responses : load_get(p, r)
  \/ \E p \in Workers : load_store_cache(p)
  \/ \E p \in Workers : load_store_at(p)
  \/ \E p \in Workers : finish(p)
  \/ tick

SpecBoot == InitBoot /\ [][NextBoot]_vars

\* a helper function is called on its own ...
Apply(fn, x) == IF fn = "od_to_download" THEN od_to_download(x) ELSE normalize_doc(x)

unit_call ==
  /\ unit # NoCall /\ unit.out = Pending
  /\ unit' = [unit EXCEPT !.out = Apply(unit.fn, unit.arg)]
  /\ UNCHANGED <<SECRET_KEY, ONEDRIVE_URL, app, df_cache, df_at, ticks, pc, req, ndoc, now, df, resp>>

\* ... and once more on its own result
unit_again ==
  /\ unit # NoCall /\ unit.out # Pending /\ unit.again = Pending
  /\ unit' = [unit EXCEPT !.again = Apply(unit.fn, unit.out)]
  /\ UNCHANGED <<SECRET_KEY, ONEDRIVE_URL, app, df_cache, df_at, ticks, pc, req, ndoc, now, df, resp>>

InitUnit ==
  /\ SECRET_KEY = KEY_A /\ ONEDRIVE_URL = URL_A /\ app = "serving"
  /\ unit \in UnitCalls
  /\ df_cache = NoDf
  /\ df_at = 0
  /\ ticks = 0
  /\ pc = [p \in Workers |-> "idle"]
  /\ req = [p \in Workers |-> NoReq]
  /\ ndoc = [p \in Workers |-> <<>>]
  /\ now = [p \in Workers |-> 0]
  /\ df = [p \in Workers |-> NoDf]
  /\ resp = [p \in Workers |-> NoResp]

NextUnit == unit_call \/ unit_again

SpecUnit == InitUnit /\ [][NextUnit]_vars

-----------------------------------------------------------------------------
(* Claims about the cache and the pipeline *)

\* the exceptions that leave load_df when the fetch fails
FetchErrors == {"RequestException", "HTTPError", "RuntimeError", "BadZipFile"}

\* C1 (as stated): requests that find the loaded entry expired cause one
\* network fetch between them: no two workers are both in the GET of a
\* non-forced refresh of the entry the cache still holds.
C1_OneFetchPerExpiry ==
  \A p, q \in Workers :
    p # q =>
      ~ ( /\ pc[p] = "get" /\ pc[q] = "get"
          /\ req[p].nocache = 0 /\ req[q].nocache = 0
          /\ df_cache # NoDf
          /\ now[p] - df_at >= CACHE_TTL
          /\ now[q] - df_at >= CACHE_TTL )

\* C2: a call of load_df without force that finds a document cached and
\* now - _df_at < CACHE_TTL takes the return of line 55: it sends no GET,
\* returns the cached document and leaves _df_cache and _df_at as they are.
C2_FreshEntryIsReused ==
  [][ \A p \in Workers :
        /\ ( pc[p] = "check" /\ pc'[p] # "check" /\ req[p].nocache = 0
             /\ df_cache # NoDf /\ now[p] - df_at < CACHE_TTL )
           => ( pc'[p] = "hit" /\ df_cache' = df_cache /\ df_at' = df_at )
        /\ ( pc[p] = "hit" /\ pc'[p] # "hit" )
           => ( pc'[p] = "done" /\ df'[p] = df_cache
                /\ df_cache' = df_cache /\ df_at' = df_at ) ]_vars

\* a worker about to return a document fetched half a TTL before its call
C2_Witness ==
  \E p \in Workers :
    pc[p] = "hit" /\ req[p].nocache = 0 /\ now[p] - df_at = TickStep

\* C3: a request whose token is not the token of its normalized identifier
\* under the secret is answered 403 by its first step, with no field, no
\* document loaded, no GET and the cache entry untouched, forced or not.
C3_TokenFirst ==
  [][ \A p \in Workers :
        ( pc[p] = "idle" /\ pc'[p] # "idle"
          /\ req'[p].t # sign(req'[p].doc, SECRET_KEY) )
        => ( pc'[p] = "done" /\ resp'[p] = Answer(403, <<>>) /\ df'[p] = NoDf
             /\ df_cache' = df_cache /\ df_at' = df_at ) ]_vars

\* a forced request with a bad token answered 403 while a document is cached
C3_Witness ==
  \E p \in Workers :
    /\ pc[p] = "done" /\ req[p].nocache = 1
    /\ req[p].t # sign(req[p].doc, SECRET_KEY)
    /\ resp[p].status = 403 /\ df_cache # NoDf

\* C5 (as stated): every request ends in a Response of one of the listed
\* statuses, none in an exception that leaves driver.
C5_NoRawException ==
  \A p \in Workers :
    pc[p] = "done" =>
      resp[p].exc = NoExc /\ resp[p].status \in {200, 401, 403, 404, 502, 400, 500}

\* C6: the steps of load_df up to and including a failed fetch assign neither
\* _df_cache nor _df_at, and a fetch error ends the call straight from the GET.
C6_FailedFetchKeepsEntry ==
  [][ \A p \in Workers :
        /\ ( pc[p] \in {"load", "check", "get"} /\ pc'[p] # pc[p] )
           => ( df_cache' = df_cache /\ df_at' = df_at )
        /\ ( pc[p] # "done" /\ pc'[p] = "done" /\ resp'[p].exc \in FetchErrors )
           => pc[p] = "get" ]_vars

\* a refresh of a loaded cache that failed on a non-spreadsheet payload
C6_Witness ==
  \E p \in Workers :
    /\ pc[p] = "done" /\ resp[p].exc = "RuntimeError"
    /\ df_cache # NoDf /\ Clock - df_at >= CACHE_TTL

-----------------------------------------------------------------------------
(* Claims about the token *)

\* the token of every identifier of the token runs under every key
TokenOf == [d \in TokDocs |-> [k \in Keys |-> sign(d, k)]]

\* C4: whatever key the server is configured with, a request carrying the
\* token of its identifier under that key is never answered 403, and a
\* request carrying the token of its identifier under any other key is
\* answered 403 at once.
C4_SignVerify ==
  \A p \in Workers :
    pc[p] # "idle" =>
      /\ req[p].t = TokenOf[req[p].doc][SECRET_KEY]
           => ~(pc[p] = "done" /\ resp[p].status = 403)
      /\ \A k2 \in Keys \ {SECRET_KEY} :
           req[p].t = TokenOf[req[p].doc][k2]
             => (pc[p] = "done" /\ resp[p] = Answer(403, <<>>))

\* an identifier that normalization changes, accepted with its own token
C4_Witness ==
  \E p \in Workers :
    /\ pc[p] = "done" /\ resp[p].status # 403
    /\ req[p].t = TokenOf[req[p].doc][SECRET_KEY]
    /\ SECRET_KEY # KEY_A
    /\ Len(req[p].doc) = MaxIdLen /\ normalize_doc(req[p].doc) # req[p].doc

\* the normalized identifier of every request of the runs
KeyOf == [r \in Requests |-> normalize_doc(r.doc)]

\* C10: two answered requests whose identifiers normalize alike and whose
\* tokens are equal are both rejected or both accepted, and on the same
\* document they get the same response.
C10_SameNormalization ==
  \A p, q \in Workers :
    ( /\ pc[p] = "done" /\ pc[q] = "done"
      /\ KeyOf[req[p]] = KeyOf[req[q]]
      /\ req[p].t = req[q].t )
    => /\ (resp[p].status = 403) <=> (resp[q].status = 403)
       /\ (df[p] = df[q] /\ df[p] # NoDf) => resp[p] = resp[q]

\* two spellings of one identifier answered 200 from the same document
C10_Witness ==
  \E p, q \in Workers :
    /\ pc[p] = "done" /\ pc[q] = "done"
    /\ req[p].doc # req[q].doc
    /\ KeyOf[req[p]] = KeyOf[req[q]]
    /\ req[p].t = req[q].t
    /\ df[p] = df[q] /\ df[p] # NoDf
    /\ resp[p].status = 200 /\ resp[q].status = 200

-----------------------------------------------------------------------------
(* Claims about the lookup and the header resolution *)

\* the logical fields with their names and fallback positions
Fields == {"name", "doc", "vig", "est"}
HeaderOf(f) ==
  IF f = "name" THEN NAME_H ELSE IF f = "doc" THEN DOC_H
  ELSE IF f = "vig" THEN VIG_H ELSE EST_H
FallbackOf(f) ==
  IF f = "name" THEN NAME_FALLBACK ELSE IF f = "doc" THEN DOC_FALLBACK
  ELSE IF f = "vig" THEN VIG_FALLBACK ELSE EST_FALLBACK

\* the zero-based positions of the columns whose header matches field f
MatchingColumns(columns, f) ==
  { i \in 0..(Len(columns) - 1) : norm_header(columns[i + 1]) = norm_header(HeaderOf(f)) }

\* the header row resolves: every logical field gets a position the
\* document has
Resolves(d) == \A f \in Fields : detect_cols(d)[f] < Len(d.columns)

\* the text of a cell, "" for an empty one
CellText(x) == IF x = NaN THEN <<>> ELSE x

\* the rows of worker p's document whose cell in the identifier column
\* normalizes to the normalized identifier of p's request
C7_Matching(p) ==
  LET c == detect_cols(df[p]).doc
  IN  { r \in DOMAIN df[p].rows :
          normalize_doc(CellText(df[p].rows[r][c + 1])) = normalize_doc(req[p].doc) }

\* a field as the response shows it: the trimmed text of the cell, - for an
\* empty cell
C7_Shown(row, idx) ==
  IF Strip(CellText(row[idx + 1])) # <<>>
  THEN Strip(CellText(row[idx + 1])) ELSE <<"-">>

\* C7: on a document whose header row resolves, a request with a valid token
\* is answered 404 when no row matches, and else 200 with the four fields of
\* the first matching row.
C7_RecordLookup ==
  \A p \in Workers :
    ( pc[p] = "done" /\ df[p] # NoDf /\ Resolves(df[p]) )
    => LET c == detect_cols(df[p])
           M == C7_Matching(p)
       IN  IF M = {} THEN resp[p] = Answer(404, <<>>)
           ELSE \E r \in M :
                  /\ \A q \in M : r <= q
                  /\ resp[p] =
                       Answer(200, << ReplaceBackslashN(C7_Shown(df[p].rows[r], c.name)),
                                      C7_Shown(df[p].rows[r], c.doc),
                                      C7_Shown(df[p].rows[r], c.vig),
                                      C7_Shown(df[p].rows[r], c.est) >>)

\* a request answered from a document in which two rows match
C7_Witness ==
  \E p \in Workers :
    /\ pc[p] = "done" /\ df[p] # NoDf /\ Resolves(df[p])
    /\ Cardinality(C7_Matching(p)) >= 2
    /\ resp[p].status = 200

\* C8 (as stated): every logical field with a matching header is mapped to
\* the lowest position among the columns that match it.
C8_FirstMatchingColumn ==
  \A p \in Workers :
    (pc[p] = "done" /\ df[p] # NoDf) =>
      \A f \in Fields :
        LET M == MatchingColumns(df[p].columns, f)
        IN  M # {} => /\ detect_cols(df[p])[f] \in M
                      /\ \A i \in M : detect_cols(df[p])[f] <= i

\* C9 (as stated): when exactly one logical field has no matching header and
\* its fallback position is beyond the columns, the request ends in a
\* SchemaError that names that field.
C9_SchemaError ==
  \A p \in Workers :
    (pc[p] = "done" /\ df[p] # NoDf) =>
      \A f \in Fields :
        ( /\ {g \in Fields : MatchingColumns(df[p].columns, g) = {}} = {f}
          /\ FallbackOf(f) >= Len(df[p].columns) )
        => resp[p] = [status |-> 400, exc |-> "SchemaError", fields |-> <<f>>]

-----------------------------------------------------------------------------
(* Claims about the link normalizer *)

\* C11: od_to_download applied to its own result gives that result again,
\* for every link of the runs, the empty string and None.
C11_LinkIdempotent ==
  (unit # NoCall /\ unit.fn = "od_to_download" /\ unit.again # Pending)
    => unit.again = unit.out

\* a OneDrive link that the first call rewrote and the second left alone
C11_Witness ==
  /\ unit # NoCall /\ unit.fn = "od_to_download" /\ unit.again # Pending
  /\ Contains(unit.arg, ONEDRIVE) /\ Contains(unit.arg, VIEW_ASPX)
  /\ unit.out # unit.arg /\ unit.again = unit.out

\* the link as od_to_download sees it after trimming and adding the scheme
LinkBase(url) ==
  LET u0 == Strip(OrEmpty(url))
  IN  IF StartsWith(Lower(u0), HTTP) \/ StartsWith(Lower(u0), HTTPS)
      THEN u0 ELSE HTTPS \o u0

\* web=1 stands in the query string, first or later
HasWebMarker(u) == Contains(u, Q_WEB) \/ Contains(u, <<"&", "w", "e", "b", "=", "1">>)

\* C13 (as stated): on a SharePoint link a web=1 marker is replaced by
\* download=1 wherever it stands in the query string; without a marker
\* download=1 is there, appended with & or ? when it was not; the result
\* never contains web=1.
C13_WebMarkerReplaced ==
  ( unit # NoCall /\ unit.fn = "od_to_download" /\ unit.out # Pending
    /\ unit.arg # None /\ Contains(unit.arg, SHAREPOINT) )
  => LET u == LinkBase(unit.arg)
     IN  /\ HasWebMarker(u) =>
              unit.out = Replace(Replace(u, Q_WEB, Q_DOWNLOAD),
                                 <<"&", "w", "e", "b", "=", "1">>, <<"&", "d", "o", "w", "n", "l", "o", "a", "d", "=", "1">>)
         /\ ~HasWebMarker(u) =>
              /\ unit.out \in {u, AppendDownload(u)}
              /\ Contains(unit.out, DOWNLOAD_1)
         /\ ~Contains(unit.out, <<"w", "e", "b", "=", "1">>)

-----------------------------------------------------------------------------
(* Claims about the identifier normalizer *)

\* an identifier without its whitespace and punctuation
RECURSIVE DropMarks(_)
DropMarks(s) ==
  IF s = <<>> THEN <<>>
  ELSE (IF IsSpace(Head(s)) \/ Head(s) = "-" THEN <<>> ELSE <<Head(s)>>)
       \o DropMarks(Tail(s))

\* ... with the ASCII letters in lower case
FoldAscii(s) ==
  LET d == DropMarks(OrEmpty(s))
  IN  [i \in DOMAIN d |->
         IF d[i] \in Range(UpperLetters)
         THEN LowerLetters[IndexOf(d[i], UpperLetters)] ELSE d[i]]

\* ... with every letter in lower case
FoldCase(s) == Lower(DropMarks(OrEmpty(s)))

\* C12 (as stated): normalize_doc applied to its own result gives that
\* result again, and two identifiers that differ only by letter case,
\* whitespace or punctuation have the same result.
C12_NormalizeAnyCase ==
  (unit # NoCall /\ unit.fn = "normalize_doc" /\ unit.out # Pending)
    => /\ unit.again # Pending => unit.again = unit.out
       /\ \A y \in NormDocs \cup {None} :
            FoldCase(y) = FoldCase(unit.arg) => normalize_doc(y) = unit.out

\* C12 (amended): normalize_doc applied to its own result gives that result
\* again, and two identifiers that differ only by the case of ASCII
\* letters, by whitespace or by punctuation have the same result.
C12_NormalizeAsciiCase ==
  (unit # NoCall /\ unit.fn = "normalize_doc" /\ unit.out # Pending)
    => /\ unit.again # Pending => unit.again = unit.out
       /\ \A y \in NormDocs \cup {None} :
            FoldAscii(y) = FoldAscii(unit.arg) => normalize_doc(y) = unit.out

\* an identifier in lower case with punctuation, normalized twice, and
\* another spelling of it
C12_Witness ==
  /\ unit # NoCall /\ unit.fn = "normalize_doc" /\ unit.again # Pending
  /\ unit.arg = <<"k", "-">> /\ unit.out = <<"K">> /\ unit.again = <<"K">>
  /\ \E y \in NormDocs : y # unit.arg /\ FoldAscii(y) = FoldAscii(unit.arg)

-----------------------------------------------------------------------------
(* Claims about the configuration *)

\* C14: with an empty secret or an empty link the process never serves: no
\* request is ever taken up, so none is authorized and no fetch is issued.
C14_MissingConfigIsFatal ==
  (SECRET_KEY = <<>> \/ ONEDRIVE_URL = <<>>)
    => (app # "serving" /\ \A p \in Workers : pc[p] = "idle")

\* the import failed for the empty link alone
C14_Witness == app = "failed" /\ SECRET_KEY # <<>> /\ ONEDRIVE_URL = <<>>

-----------------------------------------------------------------------------
(* Claims about the cache in a sequential run *)

\* C15: in a sequential run a call of load_df takes its timestamp when it
\* starts; it goes on to the fetch exactly when the cache is empty, the
\* refresh is forced or the entry is CACHE_TTL old or older, and it fetches
\* once; when the fetch succeeds the cache holds the fetched document with
\* the timestamp of the start of the call, and the call returns that document.
C15_FetchIffStale ==
  [][ \A p \in Workers :
        /\ (pc[p] = "load" /\ pc'[p] # "load")
             => (pc'[p] = "check" /\ now'[p] = Clock)
        /\ (pc[p] = "check" /\ pc'[p] # "check")
             => /\ pc'[p] \in {"get", "hit"}
                /\ pc'[p] = "get" <=> ( \/ df_cache = NoDf
                                          \/ req[p].nocache # 0
                                          \/ now[p] - df_at >= CACHE_TTL )
                /\ now'[p] = now[p]
        /\ (pc[p] = "get" /\ pc'[p] # "get")
             => /\ pc'[p] \in {"store_cache", "done"}
                /\ pc'[p] = "store_cache" => (df'[p] \in {SheetA, SheetB} /\ now'[p] = now[p])
        /\ (pc[p] \in {"hit", "store_cache", "store_at"}) => pc'[p] # "get"
        /\ (pc[p] = "store_cache" /\ pc'[p] # "store_cache")
             => (pc'[p] = "store_at" /\ now'[p] = now[p] /\ df'[p] = df[p])
        /\ (pc[p] = "store_at" /\ pc'[p] # "store_at")
             => /\ pc'[p] = "done"
                /\ df_cache' = df[p] /\ df_at' = now[p]
                /\ df'[p] = df[p] /\ df[p] \in {SheetA, SheetB}
    ]_vars

\* an unforced call has fetched because the entry it found was CACHE_TTL old,
\* and is about to stamp the new entry
C15_Witness ==
  \E p \in Workers :
    /\ pc[p] = "store_at" /\ req[p].nocache = 0
    /\ df_cache = df[p] /\ df_at >= StartTime /\ now[p] - df_at = CACHE_TTL

-----------------------------------------------------------------------------
(* Further claims about the header resolution *)

\* C16: every logical field with a matching header is mapped to a column
\* that matches it, and every logical field without one to its fallback
\* position 3, 4, 31 or 32.
C16_MatchThenFallback ==
  \A p \in Workers :
    (pc[p] = "done" /\ df[p] # NoDf) =>
      \A f \in Fields :
        LET M == MatchingColumns(df[p].columns, f)
        IN  /\ M # {} => detect_cols(df[p])[f] \in M
            /\ M = {} => detect_cols(df[p])[f] = FallbackOf(f)

\* a request answered from a document in which some fields have a header
\* and others have none
C16_Witness ==
  \E p \in Workers :
    /\ pc[p] = "done" /\ df[p] # NoDf /\ resp[p].status = 200
    /\ MatchingColumns(df[p].columns, "doc") # {}
    /\ MatchingColumns(df[p].columns, "est") = {}
    /\ detect_cols(df[p]).doc # DOC_FALLBACK

\* C18 (as stated): the four logical fields are mapped to four pairwise
\* distinct positions.
C18_DistinctPositions ==
  \A p \in Workers :
    (pc[p] = "done" /\ df[p] # NoDf) =>
      \A f, g \in Fields : f # g => detect_cols(df[p])[f] # detect_cols(df[p])[g]

-----------------------------------------------------------------------------
(* Claims about concurrent refreshes *)

\* C17 (as stated): under any interleaving the timestamp of the cache never
\* decreases, a refresh never replaces an entry written by a refresh that
\* started later, and when a call completes its write while no other call is
\* in the middle of one, the cached document is the one that call fetched.
C17_TimestampNeverDecreases ==
  [][ /\ df_at' >= df_at
      /\ \A p \in Workers :
           /\ (pc[p] = "store_cache" /\ pc'[p] = "store_at") => now[p] >= df_at
           /\ ( /\ pc[p] = "store_at" /\ pc'[p] = "done"
                /\ \A q \in Workers \ {p} : pc[q] # "store_at" )
              => df_cache' = df[p]
    ]_vars

-----------------------------------------------------------------------------
(* Claims about refreshes after a failure *)

\* the values the timestamp of the cache takes
Stamps == {0} \cup { StartTime + k * TickStep : k \in 0..MaxTicks }

\* a thread has answered with the error of a failed fetch
FetchFailed == \E p \in Workers : pc[p] = "done" /\ resp[p].exc \in FetchErrors

\* the cache is empty, or holds an entry stamped a that has expired
StaleSince(a) == df_at = a /\ (df_cache = NoDf \/ Clock - a >= CACHE_TTL)

\* C19: when requests come one after the other, a fetch that fails for an
\* unforced request leaves the cache empty or its entry expired; and from a
\* failed fetch with the cache empty or expired, with valid-token requests
\* that keep arriving and a link that answers again, the cache eventually
\* holds a document stored by a later fetch, under a later timestamp.
C19_RefreshAfterFailure ==
  /\ [][ \A p \in Workers :
           (pc[p] = "get" /\ pc'[p] = "done" /\ req[p].nocache = 0)
             => (df_cache' = NoDf \/ now[p] - df_at' >= CACHE_TTL) ]_vars
  /\ \A a \in Stamps :
       (FetchFailed /\ StaleSince(a)) ~> (df_cache # NoDf /\ df_at > a)

\* the refresh of an expired entry has failed: the cache keeps the document
\* and the timestamp of the earlier fetch
C19_Witness ==
  \E p \in Workers :
    /\ pc[p] = "done" /\ resp[p].exc \in FetchErrors /\ req[p].nocache = 0
    /\ df_cache # NoDf /\ df_at >= StartTime /\ Clock - df_at >= CACHE_TTL

=============================================================================
